---- MODULE Spec2Model ----
(***************************************************************************)
(* The UCI engine driver of src/src/90_engine.js (NewEngine) as a state    *)
(* machine.  One action per hub entry point and per line handler; each     *)
(* action runs the whole handler, including the calls it makes.            *)
(*                                                                         *)
(* Object identity (===) of SearchParams values is modelled by a serial    *)
(* number `id` given to every non-empty value at construction; NoSearch    *)
(* is the one value with id 0.                                             *)
(*                                                                         *)
(* `out` is the ordered list of what the last step did to the outside:     *)
(* lines handed to exe.stdin.write and callbacks made, each with a         *)
(* snapshot of the three search fields at that moment.  `ev` is the event  *)
(* the last step processed.                                                *)
(***************************************************************************)
EXTENDS Integers, Sequences, FiniteSets, TLC

\* ------------------------------------------------------------------ bounds
MaxRequests == 3

\* ------------------------------------------------------------ value spaces
Null == 0
NullNode == "null"

\* Positions of the hub's tree: two live ones and a finished game.
Nodes == {"n1", "n2", "mate"}
\* The limit and searchmoves arguments of set_search_desired.
SearchArgs ==
    { [limit |-> Null,  searchmoves |-> <<>>],
      [limit |-> 10000, searchmoves |-> <<>>],
      [limit |-> Null,  searchmoves |-> <<"e2e4">>],
      [limit |-> Null,  searchmoves |-> <<"e9e9">>] }
OptionNames == {"UCI_Chess960"}
OptionValues == {"true", "false"}
\* config.use_movetime and config.searchmoves_buttons, at their defaults.
Configs == [use_movetime : {FALSE}, searchmoves_buttons : {TRUE}]

Lines ==
    { [head |-> "bestmove", uci_chess960 |-> FALSE, verbose |-> FALSE],
      [head |-> "info",     uci_chess960 |-> FALSE, verbose |-> FALSE],
      [head |-> "info",     uci_chess960 |-> FALSE, verbose |-> TRUE],
      [head |-> "option",   uci_chess960 |-> TRUE,  verbose |-> FALSE],
      [head |-> "option",   uci_chess960 |-> FALSE, verbose |-> FALSE],
      [head |-> "uciok",    uci_chess960 |-> FALSE, verbose |-> FALSE],
      [head |-> "readyok",  uci_chess960 |-> FALSE, verbose |-> FALSE] }

toLowerCase(s) ==
    CASE s = "UCI_Chess960" -> "uci_chess960"
      [] OTHER              -> s

OptionKeys == {toLowerCase(n) : n \in OptionNames}

\* ------------------------------------------------------------ the chess model
\* node.terminal_reason(): non-empty for a finished game.
terminal_reason(node) == node = "mate"

\* node.validate_searchmoves(): a new list holding the legal moves only.
legal_move(node, move) == move = "e2e4"
validate_searchmoves(node, searchmoves) ==
    SelectSeq(searchmoves, LAMBDA m : legal_move(node, m))

\* ------------------------------------------------------------ SearchParams
NoSearch == [id |-> 0, node |-> NullNode, limit |-> Null, searchmoves |-> <<>>]

SearchParams(node, limit, searchmoves, id) ==
    IF node = NullNode
    THEN NoSearch
    ELSE [id |-> id, node |-> node, limit |-> limit,
          searchmoves |-> validate_searchmoves(node, searchmoves)]

\* a === b on SearchParams objects
SameObject(a, b) == a.id = b.id

CompareArrays(a, b) ==
    /\ Len(a) = Len(b)
    /\ \A i \in 1 .. Len(a) : a[i] = b[i]

\* ------------------------------------------------------------------ lines out
NoMsg == [cmd |-> "", name |-> "", value |-> "", req |-> 0,
          node |-> NullNode, limit |-> Null, searchmoves |-> <<>>, mode |-> ""]

\* `setoption name N value V`; value "" is the button form without a value.
\* req numbers the request (history only, not part of the text).
SetoptionMsg(name, value, req) ==
    [NoMsg EXCEPT !.cmd = "setoption", !.name = name, !.value = value, !.req = req]
PositionMsg(node, chess960) ==
    [NoMsg EXCEPT !.cmd = "position", !.node = node,
                  !.mode = IF chess960 THEN "history" ELSE "history_old_format"]
GoMsg(limit, searchmoves, config) ==
    [NoMsg EXCEPT !.cmd = "go",
                  !.limit = limit,
                  !.mode = IF limit = Null THEN "infinite"
                           ELSE IF config.use_movetime THEN "movetime" ELSE "nodes",
                  !.searchmoves = IF config.searchmoves_buttons THEN searchmoves ELSE <<>>]
PlainMsg(cmd) == [NoMsg EXCEPT !.cmd = cmd]

\* ------------------------------------------------------------------ state
VARIABLES
    eng,            \* the fields of the engine object
    info_handler,   \* hub.info_handler: engine_cycle, engine_subcycle
    destroyed,      \* node.destroyed of each node of the hub's tree
    next_id,        \* serial number of the next SearchParams object
    opt_req,        \* number of setoption requests made so far
    requests,       \* number of hub calls and option lines so far; also
                    \*   serves as the reading of performance.now()
    last_go,        \* "none", "go" or "bestmove": the later of the last go
                    \*   written and the last bestmove line handled
    opt_written,    \* req of the last setoption written, 0 when none was
    out,            \* what the last step wrote and called, in order
    ev,             \* the event the last step processed
    engine,         \* the engine process, where its behaviour is prescribed
    stdin,          \* lines written to exe.stdin that the engine has not read
    stdout          \* lines the engine has emitted that the scanner has not
                    \*   delivered, each with the node whose go produced it

vars == <<eng, info_handler, destroyed, next_id, opt_req, requests, last_go, opt_written, out, ev,
          engine, stdin, stdout>>

\* The part of the state the handlers read and write, passed through them.
World ==
    [eng |-> eng, info_handler |-> info_handler, next_id |-> next_id,
     last_go |-> last_go, opt_written |-> opt_written, out |-> <<>>]

InitEng ==
    [exe                    |-> FALSE,
     unresolved_stop_time   |-> Null,
     ever_received_uciok    |-> FALSE,
     ever_received_readyok  |-> FALSE,
     have_quit              |-> FALSE,
     suppress_cycle_info    |-> <<>>,
     sent_options           |-> [k \in OptionKeys |-> ""],
     sent_keys              |-> {},
     setoption_queue        |-> <<>>,
     leelaish               |-> FALSE,
     search_running         |-> NoSearch,
     search_desired         |-> NoSearch,
     search_completed       |-> NoSearch]

\* One entry of `out`.
Effect(kind, what, msg, force, node, e) ==
    [kind |-> kind, what |-> what, msg |-> msg, force |-> force, node |-> node,
     search_running |-> e.search_running,
     search_desired |-> e.search_desired,
     search_completed |-> e.search_completed]

Emit(w, kind, what, msg, force, node) ==
    [w EXCEPT !.out = Append(@, Effect(kind, what, msg, force, node, w.eng))]

\* ------------------------------------------------------------------ eng.send
send_ack_setoption_to_main_process(w, name) ==
    Emit(w, "ipc", "ack_setoption",
         [NoMsg EXCEPT !.name = toLowerCase(name),
                       !.value = IF toLowerCase(name) \in w.eng.sent_keys
                                 THEN w.eng.sent_options[toLowerCase(name)] ELSE ""],
         FALSE, NullNode)

\* exe.stdin.write(msg), taken to succeed.
stdin_write(w, msg, force) ==
    [Emit(w, "write", msg.cmd, msg, force, NullNode)
        EXCEPT !.last_go = IF msg.cmd = "go" THEN "go" ELSE @,
               !.opt_written = IF msg.cmd = "setoption" THEN msg.req ELSE @]

\* Mutant: looks at the desired search instead of the running one.
must_queue_by_desired(e, msg, force) ==
    msg.cmd = "setoption" /\ e.search_desired.node # NullNode /\ ~force

\* A setoption is held back while a search is running, unless forced.
must_queue(e, msg, force) ==
    msg.cmd = "setoption" /\ e.search_running.node # NullNode /\ ~force

send(w, msg, force) ==
    IF must_queue(w.eng, msg, force)
    THEN [w EXCEPT !.eng.setoption_queue = Append(@, msg)]
    ELSE LET key == toLowerCase(msg.name)
             w1 == IF msg.cmd = "setoption" /\ msg.value # "" /\ key # ""
                   THEN send_ack_setoption_to_main_process(
                            [w EXCEPT !.eng.sent_options[key] = msg.value,
                                      !.eng.sent_keys = @ \cup {key}], key)
                   ELSE w
         IN  IF ~w1.eng.exe THEN w1 ELSE stdin_write(w1, msg, force)

in_960_mode(e) ==
    "uci_chess960" \in e.sent_keys /\ e.sent_options["uci_chess960"] = "true"

\* ------------------------------------------------------------ eng.send_desired
\* Mutant: suppress_cycle_info is left as it was.
search_started_keeps_suppress(w) ==
    [w EXCEPT !.eng.search_running = w.eng.search_desired,
              !.info_handler.engine_cycle = @ + 1,
              !.info_handler.engine_subcycle = @ + 1]

\* The assignments that follow the go.
search_started(w) ==
    [w EXCEPT !.eng.search_running = w.eng.search_desired,
              !.eng.suppress_cycle_info = <<>>,
              !.info_handler.engine_cycle = @ + 1,
              !.info_handler.engine_subcycle = @ + 1]

\* Mutant: a destroyed node is still searched.
unsearchable_ignores_destroyed(node) ==
    node = NullNode \/ terminal_reason(node)

\* !node || node.destroyed || node.terminal_reason()
unsearchable(node) ==
    node = NullNode \/ destroyed[node] \/ terminal_reason(node)

\* Mutant: only the running search is reset, the desired one is kept.
search_abandoned_keeps_desired(w) ==
    [w EXCEPT !.eng.search_running = NoSearch]

\* The two assignments made when the desired node cannot be searched.
search_abandoned(w) ==
    [w EXCEPT !.eng.search_running = NoSearch,
              !.eng.search_desired = NoSearch]

send_desired(w, config) ==
    LET node == w.eng.search_desired.node
    IN  IF w.eng.search_running.node # NullNode
        THEN Emit(w, "throw", "send_desired() called but search was running",
                  NoMsg, FALSE, NullNode)
        ELSE IF unsearchable(node)
        THEN search_abandoned(w)
        ELSE LET w1 == send(w, PositionMsg(node, in_960_mode(w.eng)), FALSE)
                 w2 == send(w1, GoMsg(w1.eng.search_desired.limit,
                                      w1.eng.search_desired.searchmoves, config), FALSE)
             IN  search_started(w2)

\* ------------------------------------------------------ eng.set_search_desired
\* Mutant: one of the two handshake lines is taken to be enough.
handshake_done_either(e) == e.ever_received_uciok \/ e.ever_received_readyok

handshake_done(e) == e.ever_received_uciok /\ e.ever_received_readyok

\* Mutant: the new parameters are compared with the running search.
same_as_running(e, params) ==
    /\ e.search_running.node = params.node
    /\ e.search_running.limit = params.limit
    /\ CompareArrays(e.search_running.searchmoves, params.searchmoves)

\* The test for "the desired search is already this one".
same_as_desired(e, params) ==
    /\ e.search_desired.node = params.node
    /\ e.search_desired.limit = params.limit
    /\ CompareArrays(e.search_desired.searchmoves, params.searchmoves)

\* Mutant: every stop stamps the time anew.
record_stop_time_always(w, now) ==
    [w EXCEPT !.eng.unresolved_stop_time = now]

\* if (!this.unresolved_stop_time) this.unresolved_stop_time = performance.now()
record_stop_time(w, now) ==
    IF w.eng.unresolved_stop_time = Null
    THEN [w EXCEPT !.eng.unresolved_stop_time = now]
    ELSE w

\* Mutant: the time is stamped but no stop is written.
stop_running_search_silently(w, now) == record_stop_time(w, now)

\* this.send("stop"), then the time stamp.
stop_running_search(w, now) ==
    record_stop_time(send(w, PlainMsg("stop"), FALSE), now)

\* Mutant: the new search is sent at once, whether or not one is running.
set_search_desired_at_once(w, node, limit, searchmoves, config, now) ==
    IF ~handshake_done(w.eng)
    THEN w
    ELSE LET params == SearchParams(node, limit, searchmoves, w.next_id)
         IN  IF same_as_desired(w.eng, params)
             THEN w
             ELSE LET w1 == [w EXCEPT !.eng.search_desired = params,
                                      !.next_id = IF node = NullNode THEN @ ELSE @ + 1]
                  IN  IF w1.eng.search_desired.node # NullNode
                      THEN send_desired(w1, config)
                      ELSE w1

set_search_desired(w, node, limit, searchmoves, config, now) ==
    IF ~handshake_done(w.eng)
    THEN w
    ELSE LET params == SearchParams(node, limit, searchmoves, w.next_id)
         IN  IF same_as_desired(w.eng, params)
             THEN w
             ELSE LET w1 == [w EXCEPT !.eng.search_desired = params,
                                      !.next_id = IF node = NullNode THEN @ ELSE @ + 1]
                  IN  IF w1.eng.search_running.node # NullNode
                      THEN stop_running_search(w1, now)
                      ELSE IF w1.eng.search_desired.node # NullNode
                           THEN send_desired(w1, config)
                           ELSE w1

\* ---------------------------------------------- eng.send_queued_setoptions
RECURSIVE send_each(_, _)
send_each(w, queue) ==
    IF queue = <<>>
    THEN w
    ELSE send_each(send(w, Head(queue), TRUE), Tail(queue))

\* Mutant: the queue is sent last-in first-out.
RECURSIVE send_each_backwards(_, _)
send_each_backwards(w, queue) ==
    IF queue = <<>>
    THEN w
    ELSE send(send_each_backwards(w, Tail(queue)), Head(queue), TRUE)

send_queued_setoptions_backwards(w) ==
    [send_each_backwards(w, w.eng.setoption_queue) EXCEPT !.eng.setoption_queue = <<>>]

\* Mutant: the queue is sent but not emptied.
send_queued_setoptions_keeps_queue(w) ==
    send_each(w, w.eng.setoption_queue)

send_queued_setoptions(w) ==
    [send_each(w, w.eng.setoption_queue) EXCEPT !.eng.setoption_queue = <<>>]

\* ------------------------------------------------------- eng.send_ucinewgame
send_ucinewgame(w) ==
    IF ~handshake_done(w.eng)
    THEN w
    ELSE send(w, PlainMsg("ucinewgame"), FALSE)

\* -------------------------------------------------- eng.handle_bestmove_line
\* hub.receive_bestmove(line, node): the hub takes the result and may ask for
\* a new search from inside the callback.
hub_receive_bestmove(w, node, re, config, now) ==
    LET w1 == Emit(w, "call", "receive_bestmove", NoMsg, FALSE, node)
    IN  IF re.reenter
        THEN set_search_desired(w1, re.node, re.limit, re.searchmoves, config, now)
        ELSE w1

\* Mutant: search_running is not cleared.
search_ended_still_running(w) ==
    [w EXCEPT !.eng.search_completed = w.eng.search_running,
              !.eng.unresolved_stop_time = Null,
              !.last_go = "bestmove"]

\* The assignments made before anything is decided.
search_ended(w) ==
    [w EXCEPT !.eng.search_completed = w.eng.search_running,
              !.eng.search_running = NoSearch,
              !.eng.unresolved_stop_time = Null,
              !.last_go = "bestmove"]

\* Mutant: compares the two searches by their contents, not by identity.
no_new_search_by_value(e) ==
    \/ /\ e.search_desired.node = e.search_completed.node
       /\ e.search_desired.limit = e.search_completed.limit
       /\ CompareArrays(e.search_desired.searchmoves, e.search_completed.searchmoves)
    \/ e.search_desired.node = NullNode

no_new_search(e) ==
    \/ SameObject(e.search_desired, e.search_completed)
    \/ e.search_desired.node = NullNode

\* Mutant: reports whenever a search completed, desired or not.
report_bestmove_any_completed(e) ==
    e.search_completed.node # NullNode

report_bestmove(e) ==
    /\ SameObject(e.search_desired, e.search_completed)
    /\ e.search_completed.node # NullNode

\* Mutant: search_desired is not reset before the hub is called.
handle_bestmove_line_no_reset(w, re, config, now) ==
    LET w1 == search_ended(w)
    IN  IF no_new_search(w1.eng)
        THEN LET w3 == send_queued_setoptions(w1)
             IN  IF report_bestmove(w1.eng)
                 THEN hub_receive_bestmove(w3, w3.eng.search_completed.node, re, config, now)
                 ELSE [w3 EXCEPT !.eng.search_desired = NoSearch]
        ELSE send_desired(send_queued_setoptions(w1), config)

handle_bestmove_line(w, re, config, now) ==
    LET w1 == search_ended(w)
    IN  IF no_new_search(w1.eng)
        THEN LET w2 == [w1 EXCEPT !.eng.search_desired = NoSearch]
                 w3 == send_queued_setoptions(w2)
             IN  IF report_bestmove(w1.eng)
                 THEN hub_receive_bestmove(w3, w3.eng.search_completed.node, re, config, now)
                 ELSE w3
        ELSE send_desired(send_queued_setoptions(w1), config)

\* ------------------------------------------------------ eng.handle_info_line
\* hub.info_handler.receive(engine, node, line): sets engine.leelaish when the
\* line carries VerboseMoveStats.
hub_info_receive(w, node, line) ==
    LET w1 == Emit(w, "call", "info_handler.receive", NoMsg, FALSE, node)
    IN  [w1 EXCEPT !.eng.leelaish = @ \/ line.verbose]

\* Info of an alpha-beta engine that comes while the search is being replaced.
late_alpha_beta_info(e) ==
    ~e.leelaish /\ e.search_desired.node # e.search_running.node

\* Mutant: the info is handed over with the node of the desired search.
handle_info_line_desired_node(w, line) ==
    LET e == w.eng
    IN  IF e.search_running.node = NullNode
        THEN w
        ELSE IF destroyed[e.search_running.node]
        THEN w
        ELSE IF late_alpha_beta_info(e)
        THEN w
        ELSE IF e.suppress_cycle_info = <<w.info_handler.engine_cycle>>
        THEN w
        ELSE hub_info_receive(w, e.search_desired.node, line)

handle_info_line(w, line) ==
    LET e == w.eng
    IN  IF e.search_running.node = NullNode
        THEN w
        ELSE IF destroyed[e.search_running.node]
        THEN w
        ELSE IF late_alpha_beta_info(e)
        THEN w
        ELSE IF e.suppress_cycle_info = <<w.info_handler.engine_cycle>>
        THEN w
        ELSE hub_info_receive(w, e.search_running.node, line)

\* ------------------------------------------------- setoption and its variants
\* Mutant: the value is left out of the line, as for a button.
setoption_without_value(w, name, value, req) ==
    send(w, SetoptionMsg(name, "", req), FALSE)

setoption(w, name, value, req) == send(w, SetoptionMsg(name, value, req), FALSE)

pressbutton(w, name, req) == send(w, SetoptionMsg(name, "", req), FALSE)

\* suppressed_options_lc0 and suppressed_options_ab are tables defined
\* elsewhere: whether each holds the name is an input.
maybe_setoption_fail_reason(e, name, in_lc0, in_ab) ==
    IF e.leelaish /\ in_lc0
    THEN "Not sent, wrong engine type"
    ELSE IF ~e.leelaish /\ in_ab
    THEN "Not sent, wrong engine type"
    ELSE ""

maybe_setoption(w, name, value, req, in_lc0, in_ab) ==
    IF maybe_setoption_fail_reason(w.eng, name, in_lc0, in_ab) # ""
    THEN send_ack_setoption_to_main_process(w, name)
    ELSE setoption(w, name, value, req)

\* ------------------------------------------------------------------ eng.setup
WellKnownOptions == {"Threads"}

RECURSIVE ack_each(_, _)
ack_each(w, names) ==
    IF names = {}
    THEN w
    ELSE LET n == CHOOSE x \in names : TRUE
         IN  ack_each(send_ack_setoption_to_main_process(w, n), names \ {n})

setup(w, spawned) ==
    IF ~spawned
    THEN Emit(w, "alert", "spawn failed", NoMsg, FALSE, NullNode)
    ELSE LET w1 == Emit([w EXCEPT !.eng.exe = TRUE], "ipc", "ack_engine_start",
                        NoMsg, FALSE, NullNode)
             w2 == [w1 EXCEPT !.eng.sent_options = [k \in OptionKeys |-> ""],
                              !.eng.sent_keys = {}]
         IN  ack_each(w2, WellKnownOptions)

\* --------------------------------------------------------------- eng.shutdown
shutdown(w) ==
    send([w EXCEPT !.eng.have_quit = TRUE], PlainMsg("quit"), FALSE)

\* ------------------------------------------------------------ line handlers
\* Mutant: lines are still handled after shutdown.
ignores_lines_never(e) == FALSE

\* if (this.have_quit) return, first statement of both line handlers.
ignores_lines(e) == e.have_quit

stderr_line(w) ==
    IF ignores_lines(w.eng)
    THEN w
    ELSE Emit(w, "call", "err_receive", NoMsg, FALSE, NullNode)

stdout_line(w, line, re, config, req, now) ==
    IF ignores_lines(w.eng)
    THEN w
    ELSE IF line.head = "bestmove"
    THEN handle_bestmove_line(w, re, config, now)
    ELSE IF line.head = "info"
    THEN handle_info_line(w, line)
    ELSE LET w1 == IF line.head = "option" /\ line.uci_chess960
                   THEN setoption(w, "UCI_Chess960", "true", req)
                   ELSE w
             w2 == IF line.head = "uciok"
                   THEN [w1 EXCEPT !.eng.ever_received_uciok = TRUE]
                   ELSE w1
             w3 == IF line.head = "readyok"
                   THEN [w2 EXCEPT !.eng.ever_received_readyok = TRUE]
                   ELSE w2
         IN  Emit(w3, "call", "receive_misc", NoMsg, FALSE, NullNode)

\* ------------------------------------------------------------------ actions
Step(w, event) ==
    /\ eng' = w.eng
    /\ info_handler' = w.info_handler
    /\ next_id' = w.next_id
    /\ last_go' = w.last_go
    /\ opt_written' = w.opt_written
    /\ out' = w.out
    /\ ev' = event

NoEvent == [op |-> "", line |-> [head |-> "", uci_chess960 |-> FALSE, verbose |-> FALSE],
            node |-> NullNode, limit |-> Null, searchmoves |-> <<>>,
            name |-> "", value |-> "", reenter |-> FALSE, source |-> NullNode]

\* No engine process whose behaviour is prescribed.
NoEngine == [up |-> FALSE, boot |-> "off", position |-> NullNode, searching |-> NullNode]

\* What hub.receive_bestmove does from inside the callback.
ReEntries ==
    {[reenter |-> FALSE, node |-> NullNode, limit |-> Null, searchmoves |-> <<>>]}
    \cup [reenter : {TRUE}, node : Nodes, limit : {Null}, searchmoves : {<<>>}]

\* One more request is made of the driver.
Request ==
    /\ requests < MaxRequests
    /\ requests' = requests + 1

\* The hub makes one more call (or change to what it owns).
HubCall ==
    /\ ~eng.have_quit
    /\ Request

Init ==
    /\ eng = InitEng
    /\ info_handler = [engine_cycle |-> 0, engine_subcycle |-> 0]
    /\ destroyed = [n \in Nodes |-> FALSE]
    /\ next_id = 1
    /\ opt_req = 0
    /\ requests = 0
    /\ last_go = "none"
    /\ opt_written = 0
    /\ out = <<>>
    /\ ev = NoEvent
    /\ engine = NoEngine
    /\ stdin = <<>>
    /\ stdout = <<>>

SetSearchDesired ==
    \E node \in Nodes \cup {NullNode}, args \in SearchArgs, config \in Configs :
        /\ HubCall
        /\ Step(set_search_desired(World, node, args.limit, args.searchmoves, config,
                                    requests + 1),
                [NoEvent EXCEPT !.op = "set_search_desired", !.node = node,
                                !.limit = args.limit, !.searchmoves = args.searchmoves])
        /\ UNCHANGED <<destroyed, opt_req>>

Setoption ==
    \E name \in OptionNames, value \in OptionValues :
        /\ HubCall
        /\ opt_req' = opt_req + 1
        /\ Step(setoption(World, name, value, opt_req + 1),
                [NoEvent EXCEPT !.op = "setoption", !.name = name, !.value = value])
        /\ UNCHANGED destroyed

MaybeSetoption ==
    \E name \in OptionNames, value \in OptionValues, in_lc0 \in BOOLEAN, in_ab \in BOOLEAN :
        /\ HubCall
        /\ opt_req' = opt_req + 1
        /\ Step(maybe_setoption(World, name, value, opt_req + 1, in_lc0, in_ab),
                [NoEvent EXCEPT !.op = "maybe_setoption", !.name = name, !.value = value])
        /\ UNCHANGED destroyed

Pressbutton ==
    \E name \in OptionNames :
        /\ HubCall
        /\ opt_req' = opt_req + 1
        /\ Step(pressbutton(World, name, opt_req + 1),
                [NoEvent EXCEPT !.op = "pressbutton", !.name = name])
        /\ UNCHANGED destroyed

SendUcinewgame ==
    /\ HubCall
    /\ Step(send_ucinewgame(World), [NoEvent EXCEPT !.op = "send_ucinewgame"])
    /\ UNCHANGED <<destroyed, opt_req>>

\* setup() is called once; an engine object is not used again after
\* shutdown() ("Don't reuse the engine object"), though lines may still come.
Setup ==
    \E spawned \in BOOLEAN :
        /\ ~eng.exe
        /\ ~eng.have_quit
        /\ Step(setup(World, spawned), [NoEvent EXCEPT !.op = "setup"])
        /\ UNCHANGED <<destroyed, opt_req, requests>>

Shutdown ==
    /\ ~eng.have_quit
    /\ Step(shutdown(World), [NoEvent EXCEPT !.op = "shutdown"])
    /\ UNCHANGED <<destroyed, opt_req, requests>>

\* The scanners exist once setup() has spawned the engine.
\* The scanner delivers one stdout line; source is the node whose go made
\* the engine emit it, where that is known.
ScannerLine(line, source, re, config) ==
    /\ eng.exe
    \* the hub acts from inside receive_bestmove only when it is called
    /\ re.reenter => /\ line.head = "bestmove"
                      /\ eng.search_running.node # NullNode
                      /\ SameObject(eng.search_desired, eng.search_running)
    /\ IF re.reenter \/ (line.head = "option" /\ line.uci_chess960)
       THEN Request
       ELSE UNCHANGED requests
    /\ opt_req' = IF line.head = "option" /\ line.uci_chess960 /\ ~eng.have_quit
                  THEN opt_req + 1 ELSE opt_req
    /\ Step(stdout_line(World, line, re, config, opt_req + 1, requests + 1),
            [NoEvent EXCEPT !.op = "stdout", !.line = line, !.reenter = re.reenter,
                            !.node = re.node, !.limit = re.limit,
                            !.searchmoves = re.searchmoves, !.source = source])
    /\ UNCHANGED destroyed

\* An engine about which nothing is assumed: any line at any time.
StdoutLine ==
    \E line \in Lines, re \in ReEntries, config \in Configs :
        ScannerLine(line, NullNode, re, config)

StderrLine ==
    /\ eng.exe
    /\ Step(stderr_line(World), [NoEvent EXCEPT !.op = "stderr"])
    /\ UNCHANGED <<destroyed, opt_req, requests>>

\* The hub marks a node of its tree destroyed.
HubDestroysNode ==
    \E n \in Nodes :
        /\ ~destroyed[n]
        /\ HubCall
        /\ destroyed' = [destroyed EXCEPT ![n] = TRUE]
        /\ Step(World, [NoEvent EXCEPT !.op = "destroy", !.node = n])
        /\ UNCHANGED opt_req

\* The hub sets suppress_cycle_info to the current cycle ("forget all analysis").
HubSuppressesCycle ==
    /\ HubCall
    /\ Step([World EXCEPT !.eng.suppress_cycle_info = <<info_handler.engine_cycle>>],
            [NoEvent EXCEPT !.op = "suppress"])
    /\ UNCHANGED <<destroyed, opt_req>>

\* The engine is left unprescribed: its process and pipes are not followed.
Unpiped == UNCHANGED <<engine, stdin, stdout>>

Next ==
    \/ Setup /\ Unpiped
    \/ SetSearchDesired /\ Unpiped
    \/ Setoption /\ Unpiped
    \/ MaybeSetoption /\ Unpiped
    \/ Pressbutton /\ Unpiped
    \/ SendUcinewgame /\ Unpiped
    \/ Shutdown /\ Unpiped
    \/ StdoutLine /\ Unpiped
    \/ StderrLine /\ Unpiped
    \/ HubDestroysNode /\ Unpiped
    \/ HubSuppressesCycle /\ Unpiped

Spec == Init /\ [][Next]_vars

\* ------------------------------------------------- a well-behaved UCI engine
\* The engine the driver is written for: it reads its stdin in order, emits
\* info lines only while it searches, and ends every go with one bestmove, of
\* its own accord or when it reads stop.  The pipes are first-in first-out.
MaxPipe == 2

\* The commands the engine acts on; setoption and ucinewgame change nothing
\* it is followed for.
EngineCommands == {"position", "go", "stop", "quit"}

\* What the engine acts on of the lines the step wrote.
WrittenLines(o) ==
    LET ws == SelectSeq(o, LAMBDA x : x.kind = "write" /\ x.msg.cmd \in EngineCommands)
    IN  [i \in 1 .. Len(ws) |-> [cmd |-> ws[i].msg.cmd, node |-> ws[i].msg.node]]

\* A driver step: what it writes goes into the engine's stdin, and a
\* setup() that spawns starts the engine.
Piped ==
    /\ stdin' = stdin \o WrittenLines(out')
    /\ engine' = IF ev'.op = "setup" /\ eng'.exe
                 THEN [NoEngine EXCEPT !.up = TRUE, !.boot = "options"]
                 ELSE engine
    /\ UNCHANGED stdout

EngineLine(head, verbose, source) ==
    [line |-> [head |-> head, uci_chess960 |-> FALSE, verbose |-> verbose],
     source |-> source]

DriverUntouched ==
    UNCHANGED <<eng, info_handler, destroyed, next_id, opt_req, requests,
                last_go, opt_written, out, ev>>

\* The start of the engine: its options, then uciok, then readyok.
EngineBoots ==
    /\ engine.up
    /\ \/ /\ engine.boot = "options"
          /\ \E c \in BOOLEAN :
                stdout' = Append(stdout, [EngineLine("option", FALSE, NullNode)
                                            EXCEPT !.line.uci_chess960 = c])
          /\ engine' = [engine EXCEPT !.boot = "uciok"]
       \/ /\ engine.boot \in {"options", "uciok"}
          /\ stdout' = Append(stdout, EngineLine("uciok", FALSE, NullNode))
          /\ engine' = [engine EXCEPT !.boot = "readyok"]
       \/ /\ engine.boot = "readyok"
          /\ stdout' = Append(stdout, EngineLine("readyok", FALSE, NullNode))
          /\ engine' = [engine EXCEPT !.boot = "ready"]
    /\ UNCHANGED stdin
    /\ DriverUntouched

\* The engine reads the next line of its stdin.
EngineReads ==
    /\ engine.up
    /\ stdin # <<>>
    /\ stdin' = Tail(stdin)
    /\ LET msg == Head(stdin)
       IN  CASE msg.cmd = "position" ->
                    /\ engine' = [engine EXCEPT !.position = msg.node]
                    /\ UNCHANGED stdout
             [] msg.cmd = "go" ->
                    /\ engine' = [engine EXCEPT !.searching = engine.position]
                    /\ UNCHANGED stdout
             [] msg.cmd = "stop" /\ engine.searching # NullNode ->
                    /\ engine' = [engine EXCEPT !.searching = NullNode]
                    /\ stdout' = Append(stdout, EngineLine("bestmove", FALSE, engine.searching))
             [] msg.cmd = "quit" ->
                    /\ engine' = [engine EXCEPT !.up = FALSE, !.searching = NullNode]
                    /\ UNCHANGED stdout
             [] OTHER ->
                    UNCHANGED <<engine, stdout>>
    /\ DriverUntouched

\* While it searches the engine reports on the search.
EngineInfo ==
    /\ engine.up
    /\ engine.searching # NullNode
    /\ Len(stdout) < MaxPipe
    /\ \E verbose \in BOOLEAN :
          stdout' = Append(stdout, EngineLine("info", verbose, engine.searching))
    /\ UNCHANGED <<engine, stdin>>
    /\ DriverUntouched

\* The search reaches its limit, or the engine otherwise ends it by itself.
EngineBestmove ==
    /\ engine.up
    /\ engine.searching # NullNode
    /\ stdout' = Append(stdout, EngineLine("bestmove", FALSE, engine.searching))
    /\ engine' = [engine EXCEPT !.searching = NullNode]
    /\ UNCHANGED stdin
    /\ DriverUntouched

\* The scanner delivers the oldest undelivered line to the stdout handler.
DriverReadsLine ==
    /\ stdout # <<>>
    /\ \E re \in ReEntries, config \in Configs :
          ScannerLine(Head(stdout).line, Head(stdout).source, re, config)
    /\ stdout' = Tail(stdout)
    /\ stdin' = stdin \o WrittenLines(out')
    /\ UNCHANGED engine

NextUci ==
    \/ Setup /\ Piped
    \/ SetSearchDesired /\ Piped
    \/ Setoption /\ Piped
    \/ MaybeSetoption /\ Piped
    \/ Pressbutton /\ Piped
    \/ SendUcinewgame /\ Piped
    \/ Shutdown /\ Piped
    \/ StderrLine /\ Piped
    \/ HubDestroysNode /\ Piped
    \/ HubSuppressesCycle /\ Piped
    \/ EngineBoots
    \/ EngineReads
    \/ EngineInfo
    \/ EngineBestmove
    \/ DriverReadsLine

SpecUci == Init /\ [][NextUci]_vars

\* The hub asks for an unlimited search of a node, or for none.
HubChangesSearch ==
    \E node \in Nodes \cup {NullNode}, config \in Configs :
        /\ HubCall
        /\ Step(set_search_desired(World, node, Null, <<>>, config, requests + 1),
                [NoEvent EXCEPT !.op = "set_search_desired", !.node = node])
        /\ UNCHANGED <<destroyed, opt_req>>

\* Shutdown is never called, and the hub makes only the calls that change
\* the search.
NextUciLive ==
    \/ Setup /\ Piped
    \/ HubChangesSearch /\ Piped
    \/ EngineBoots
    \/ EngineReads
    \/ EngineInfo
    \/ EngineBestmove
    \/ DriverReadsLine

\* The engine goes on reading its stdin, which is how it comes to answer a
\* stop, and the scanner goes on delivering the lines of its stdout.
SpecUciFair ==
    /\ Init /\ [][NextUciLive]_vars
    /\ WF_vars(EngineReads)
    /\ WF_vars(DriverReadsLine)

\* =================================================================== claims
\* The four states of the comment at the head of the source, read off eng.
Inactive(e) == e.search_running.node = NullNode
Running(e) ==
    e.search_running.node # NullNode /\ SameObject(e.search_desired, e.search_running)
\* Changing or Ending: a search runs and it is not the desired object.
StopOutstanding(e) ==
    e.search_running.node # NullNode /\ ~SameObject(e.search_desired, e.search_running)

Writes(o) == SelectSeq(o, LAMBDA x : x.kind = "write")
WritesOf(o, cmd) == SelectSeq(o, LAMBDA x : x.kind = "write" /\ x.msg.cmd = cmd)
CallsOf(o, what) == SelectSeq(o, LAMBDA x : x.kind = "call" /\ x.what = what)

BestmoveLine(e) == e.op = "stdout" /\ e.line.head = "bestmove"
InfoLine(e) == e.op = "stdout" /\ e.line.head = "info"

\* ----------------------------------------------------------------------- C1
\* What C1 says of one step that processes a bestmove line: the line is
\* forwarded once, with the node of the running search, if the driver was in
\* state Running, and not at all otherwise.
C1_Forwarding ==
    BestmoveLine(ev') =>
        LET calls == CallsOf(out', "receive_bestmove")
        IN  IF Running(eng)
            THEN Len(calls) = 1 /\ calls[1].node = eng.search_running.node
            ELSE calls = <<>>

\* C1 as stated: for every sequence of hub calls and inbound lines, a
\* bestmove line is forwarded to hub.receive_bestmove exactly once, with the
\* node of the running search, if and only if it arrives in state Running.
C1_AsStated == [][C1_Forwarding]_vars

\* C1 amended: while shutdown has not been called, a bestmove line is
\* forwarded exactly once, with the node of the running search, if and only
\* if it arrives in state Running; a bestmove that arrives in state Inactive,
\* Changing or Ending, or after shutdown, is never forwarded.
C1_Amended ==
    [][ IF eng.have_quit
        THEN BestmoveLine(ev') => CallsOf(out', "receive_bestmove") = <<>>
        ELSE C1_Forwarding ]_vars

\* A bestmove line has just been forwarded with the node of its search.
C1_Witness ==
    /\ BestmoveLine(ev)
    /\ ~eng.have_quit
    /\ Len(CallsOf(out, "receive_bestmove")) = 1
    /\ CallsOf(out, "receive_bestmove")[1].node = eng.search_completed.node
    /\ eng.search_completed.node = "n2"

\* ----------------------------------------------------------------------- C2
\* C2 as stated: whenever hub.receive_bestmove is invoked, search_desired is
\* at that moment the identical object as search_completed.
C2_AsStated ==
    \A i \in DOMAIN out :
        (out[i].kind = "call" /\ out[i].what = "receive_bestmove")
            => SameObject(out[i].search_desired, out[i].search_completed)

\* C2 amended: for every forwarded bestmove, search_desired was the identical
\* object as the running search when the line arrived, and that search is
\* search_completed when hub.receive_bestmove is invoked; by then
\* search_desired (like search_running) has been reset to NoSearch.
C2_Amended ==
    [][ \A i \in DOMAIN out' :
          (out'[i].kind = "call" /\ out'[i].what = "receive_bestmove")
              => /\ SameObject(eng.search_desired, eng.search_running)
                 /\ out'[i].search_completed = eng.search_running
                 /\ out'[i].search_completed.node # NullNode
                 /\ out'[i].search_desired = NoSearch
                 /\ out'[i].search_running = NoSearch ]_vars

\* A bestmove was forwarded, and at the call search_desired was NoSearch
\* while search_completed held the search just finished.
C2_Witness ==
    \E i \in DOMAIN out :
        /\ out[i].kind = "call" /\ out[i].what = "receive_bestmove"
        /\ out[i].search_desired = NoSearch
        /\ out[i].search_completed.node = "n1"
        /\ out[i].search_completed.limit = 10000

\* ----------------------------------------------------------------------- C3
\* C3 as stated: while a stop is outstanding (state Changing or Ending), a
\* set_search_desired call that replaces the desired search writes nothing
\* to the engine.
C3_AsStated ==
    [][ ( /\ ev'.op = "set_search_desired"
          /\ StopOutstanding(eng)
          /\ ~SameObject(eng'.search_desired, eng.search_desired) )
        => Writes(out') = <<>> ]_vars

\* ----------------------------------------------------------------------- C4
\* Every setoption handed to the engine goes out while search_running.node
\* is empty or with the force flag set.
C4_Writes ==
    \A i \in DOMAIN out :
        (out[i].kind = "write" /\ out[i].msg.cmd = "setoption")
            => out[i].search_running.node = NullNode \/ out[i].force

\* A setoption (or button press) requested while a search runs is appended
\* to the queue and nothing is written or recorded by that call.
C4_Queued ==
    (ev'.op \in {"setoption", "pressbutton"} /\ eng.search_running.node # NullNode)
        => /\ out' = <<>>
           /\ eng'.setoption_queue =
                  Append(eng.setoption_queue,
                         SetoptionMsg(ev'.name, ev'.value, opt_req'))
           /\ eng'.sent_options = eng.sent_options
           /\ eng'.sent_keys = eng.sent_keys

\* C4: every setoption line written to the engine is written while
\* search_running.node is empty or with force set, and a setoption passed to
\* send without force during a search is queued and not written by that call.
C4_Theorem == []C4_Writes /\ [][C4_Queued]_vars

\* A setoption was requested during a search and sits in the queue unwritten.
C4_Witness ==
    /\ ev.op = "setoption"
    /\ eng.search_running.node # NullNode
    /\ out = <<>>
    /\ Len(eng.setoption_queue) = 2
    /\ eng.setoption_queue[2] = SetoptionMsg(ev.name, ev.value, opt_req)

\* ----------------------------------------------------------------------- C5
\* The bestmove that clears search_running writes the whole queue first, in
\* its order, before any position or go and before the hub is called, and
\* leaves the queue empty.
C5_Drain ==
    (BestmoveLine(ev') /\ ~eng.have_quit) =>
        LET q == eng.setoption_queue
            W == Writes(out')
        IN  /\ Len(W) >= Len(q)
            /\ \A i \in 1 .. Len(q) : W[i].msg = q[i]
            /\ \A i \in 1 .. Len(W) : i > Len(q) => W[i].msg.cmd # "setoption"
            /\ \A i, j \in DOMAIN out' :
                   ( /\ out'[i].kind = "write" /\ out'[i].msg.cmd = "setoption"
                     /\ \/ out'[j].kind = "write" /\ out'[j].msg.cmd \in {"position", "go"}
                        \/ out'[j].kind = "call" /\ out'[j].what = "receive_bestmove" )
                   => i < j
            /\ eng'.setoption_queue = <<>>

\* Setoption lines are written in the order of their requests.
C5_Order ==
    LET S == WritesOf(out', "setoption")
    IN  \A i \in 1 .. Len(S) :
            S[i].msg.req > (IF i = 1 THEN opt_written ELSE S[i - 1].msg.req)

\* C5: setoption lines reach the engine in the order they were requested;
\* those queued during a search are all written, contiguously and in order,
\* when the next bestmove clears search_running, before the position/go of
\* the next search and before the bestmove is forwarded, and the queue is
\* empty afterwards.
C5_Theorem == [][C5_Drain /\ C5_Order]_vars

\* A bestmove has just drained a queue of two setoptions, in request order,
\* and then forwarded the bestmove.
C5_Witness ==
    /\ BestmoveLine(ev)
    /\ Len(WritesOf(out, "setoption")) = 2
    /\ WritesOf(out, "setoption")[1].msg.req < WritesOf(out, "setoption")[2].msg.req
    /\ Len(CallsOf(out, "receive_bestmove")) = 1
    /\ eng.setoption_queue = <<>>

\* ----------------------------------------------------------------------- C6
\* What C6 says of one step that processes a bestmove line.
C6_Relaunch ==
    ( /\ BestmoveLine(ev')
      /\ eng.search_desired.node # NullNode
      /\ ~destroyed[eng.search_desired.node]
      /\ ~terminal_reason(eng.search_desired.node)
      /\ ~SameObject(eng.search_desired, eng.search_running) )
    => LET q == eng.setoption_queue
           W == Writes(out')
       IN  /\ CallsOf(out', "receive_bestmove") = <<>>
           /\ Len(W) = Len(q) + 2
           /\ \A i \in 1 .. Len(q) : W[i].msg = q[i]
           /\ W[Len(q) + 1].msg.cmd = "position"
           /\ W[Len(q) + 1].msg.node = eng.search_desired.node
           /\ W[Len(q) + 2].msg.cmd = "go"
           /\ W[Len(q) + 2].msg.limit = eng.search_desired.limit
           /\ eng'.search_desired = eng.search_desired
           /\ SameObject(eng'.search_running, eng'.search_desired)

\* C6 as stated: whenever a bestmove arrives while search_desired has a live,
\* non-terminal node and is not the running object, the bestmove is
\* discarded and in the same step the queued setoptions, position and go of
\* the desired search are written, and search_running becomes search_desired.
C6_AsStated == [][C6_Relaunch]_vars

\* C6 amended: the same, provided shutdown has not been called.
C6_Amended == [][~eng.have_quit => C6_Relaunch]_vars

\* A bestmove has just relaunched a search that equals the completed one in
\* node, limit and searchmoves but is another object (halt, then resume).
C6_Witness ==
    /\ BestmoveLine(ev)
    /\ ~eng.have_quit
    /\ Len(WritesOf(out, "go")) = 1
    /\ CallsOf(out, "receive_bestmove") = <<>>
    /\ eng.search_completed.node # NullNode
    /\ ~SameObject(eng.search_running, eng.search_completed)
    /\ eng.search_running.node = eng.search_completed.node
    /\ eng.search_running.limit = eng.search_completed.limit
    /\ eng.search_running.searchmoves = eng.search_completed.searchmoves
    /\ SameObject(eng.search_running, eng.search_desired)

\* ----------------------------------------------------------------------- C7
\* C7: until both uciok and readyok have been received, set_search_desired
\* and send_ucinewgame write nothing and change nothing of the driver or of
\* the cycle counters.
C7_Theorem ==
    [][ ( /\ ev'.op \in {"set_search_desired", "send_ucinewgame"}
          /\ ~(eng.ever_received_uciok /\ eng.ever_received_readyok) )
        => /\ out' = <<>>
           /\ eng' = eng
           /\ info_handler' = info_handler
           /\ next_id' = next_id ]_vars

\* set_search_desired was called with a node after uciok but before readyok,
\* and nothing happened.
C7_Witness ==
    /\ ev.op = "set_search_desired"
    /\ ev.node = "n1"
    /\ eng.exe
    /\ eng.ever_received_uciok /\ ~eng.ever_received_readyok
    /\ out = <<>>
    /\ eng.search_desired = NoSearch

C9_Theorem ==
    [][ LET g == Len(WritesOf(out', "go"))
        IN  /\ info_handler'.engine_cycle = info_handler.engine_cycle + g
            /\ info_handler'.engine_subcycle = info_handler.engine_subcycle + g
            /\ g > 0 => eng'.suppress_cycle_info = <<>> ]_vars

\* The second go has just been written, after the hub had suppressed the
\* first cycle; the counters stand at two and the suppression is gone.
C9_Witness ==
    /\ Len(WritesOf(out, "go")) = 1
    /\ info_handler.engine_cycle = 2
    /\ info_handler.engine_subcycle = 2
    /\ eng.suppress_cycle_info = <<>>
    /\ requests = 3

\* ---------------------------------------------------------------------- C10
\* C10 as stated: while leelaish is false, every info line that arrives in
\* state Changing or Ending is dropped and never reaches
\* hub.info_handler.receive.
C10_AsStated ==
    [][ (InfoLine(ev') /\ ~eng.leelaish /\ StopOutstanding(eng))
        => CallsOf(out', "info_handler.receive") = <<>> ]_vars

\* ---------------------------------------------------------------------- C12
\* C12: once shutdown has been called, a stdout or stderr line changes no
\* field of the driver (searches, handshake flags, option registry, queue),
\* leaves the hub's counters alone, calls nothing and writes nothing.
C12_Theorem ==
    [][ (eng.have_quit /\ ev'.op \in {"stdout", "stderr"})
        => /\ eng' = eng
           /\ info_handler' = info_handler
           /\ out' = <<>> ]_vars

\* A bestmove line has arrived after shutdown while a stop was outstanding:
\* the search is still recorded as running and nothing was done.
C12_Witness ==
    /\ eng.have_quit
    /\ BestmoveLine(ev)
    /\ StopOutstanding(eng)
    /\ eng.unresolved_stop_time # Null
    /\ out = <<>>

\* ---------------------------------------------------------------------- C13
OptionLine960(e) == e.op = "stdout" /\ e.line.head = "option" /\ e.line.uci_chess960

\* What C13 expects of the step: the setoption is written, the registry holds
\* uci_chess960 -> "true" and in_960_mode() answers true.
C13_Enabled ==
    /\ \E i \in 1 .. Len(out') :
          /\ out'[i].kind = "write"
          /\ out'[i].msg.cmd = "setoption"
          /\ out'[i].msg.name = "UCI_Chess960"
          /\ out'[i].msg.value = "true"
    /\ "uci_chess960" \in eng'.sent_keys
    /\ eng'.sent_options["uci_chess960"] = "true"
    /\ in_960_mode(eng')

\* C13 as stated: every option line that mentions uci_chess960 makes the
\* driver write the setoption and record it, whatever state it is in.
C13_AsStated == [][ OptionLine960(ev') => C13_Enabled ]_vars

\* C13 amended: the option line has that effect when no search is running and
\* shutdown has not been called; while a search is running the setoption is
\* appended to the queue and nothing is written or recorded in that step.
C13_Amended ==
    [][ (OptionLine960(ev') /\ ~eng.have_quit)
        => IF eng.search_running.node = NullNode
           THEN C13_Enabled /\ eng'.setoption_queue = eng.setoption_queue
           ELSE /\ WritesOf(out', "setoption") = <<>>
                /\ eng'.sent_options = eng.sent_options
                /\ eng'.sent_keys = eng.sent_keys
                /\ Len(eng'.setoption_queue) = Len(eng.setoption_queue) + 1
                /\ eng'.setoption_queue[Len(eng'.setoption_queue)].name = "UCI_Chess960"
                /\ eng'.setoption_queue[Len(eng'.setoption_queue)].value = "true" ]_vars

\* The option line arrived before the handshake ended and the driver has
\* switched to 960 mode.
C13_Witness ==
    /\ OptionLine960(ev)
    /\ ~eng.ever_received_uciok
    /\ Len(WritesOf(out, "setoption")) = 1
    /\ in_960_mode(eng)

\* ---------------------------------------------------------------------- C14
\* node.destroyed || node.terminal_reason(), for a node that is not null.
DeadNode(n) == n # NullNode /\ (destroyed[n] \/ terminal_reason(n))

\* The steps in which send_desired runs with a desired node that is destroyed
\* or terminal: a fresh set_search_desired from Inactive, the bestmove that
\* ends Changing, and a set_search_desired made from inside receive_bestmove.
C14_Runs ==
    \/ /\ ev'.op = "set_search_desired"
       /\ eng.ever_received_uciok /\ eng.ever_received_readyok
       /\ Inactive(eng)
       /\ eng.search_desired.node # ev'.node
       /\ DeadNode(ev'.node)
    \/ /\ BestmoveLine(ev') /\ ~eng.have_quit
       /\ ~SameObject(eng.search_desired, eng.search_running)
       /\ DeadNode(eng.search_desired.node)
    \/ /\ BestmoveLine(ev') /\ ~eng.have_quit
       /\ Running(eng)
       /\ ev'.reenter
       /\ DeadNode(ev'.node)

\* C14: when send_desired runs with a destroyed or terminal desired node, no
\* position and no go is written, the cycle counters keep their values, and
\* search_running and search_desired are both NoSearch afterwards.
C14_Theorem ==
    [][ C14_Runs
        => /\ WritesOf(out', "position") = <<>>
           /\ WritesOf(out', "go") = <<>>
           /\ info_handler' = info_handler
           /\ eng'.search_running = NoSearch
           /\ eng'.search_desired = NoSearch ]_vars

\* After the handshake the hub asked for a search of a node it had destroyed:
\* nothing was written and the driver is Inactive.
C14_Witness ==
    /\ ev.op = "set_search_desired"
    /\ ev.node = "n1"
    /\ destroyed["n1"]
    /\ eng.ever_received_uciok /\ eng.ever_received_readyok
    /\ eng.search_running = NoSearch
    /\ eng.search_desired = NoSearch
    /\ info_handler.engine_cycle = 0
    /\ out = <<>>

\* ---------------------------------------------------------------------- C15
\* The arguments of the call, made into SearchParams, match search_desired:
\* same node, equal limit, element-wise equal validated searchmoves.
C15_Matches ==
    LET params == SearchParams(ev'.node, ev'.limit, ev'.searchmoves, 0)
    IN  /\ ev'.op = "set_search_desired"
        /\ params.node = eng.search_desired.node
        /\ params.limit = eng.search_desired.limit
        /\ Len(params.searchmoves) = Len(eng.search_desired.searchmoves)
        /\ \A i \in 1 .. Len(params.searchmoves) :
              params.searchmoves[i] = eng.search_desired.searchmoves[i]

\* The call repeats the call before it, argument for argument.
C15_Repeats ==
    /\ ev.op = "set_search_desired" /\ ev'.op = "set_search_desired"
    /\ ev'.node = ev.node /\ ev'.limit = ev.limit /\ ev'.searchmoves = ev.searchmoves

\* C15: set_search_desired with parameters that match search_desired changes
\* nothing in any state (search_desired stays the same object, nothing is
\* written, unresolved_stop_time keeps its value), and a call that repeats
\* the call before it changes nothing either.
C15_Theorem ==
    [][ (C15_Matches \/ C15_Repeats)
        => /\ eng' = eng
           /\ info_handler' = info_handler
           /\ out' = <<>> ]_vars

\* While a stop was outstanding the hub asked again for the desired search,
\* naming a move that validation drops: the call matched and did nothing.
C15_Witness ==
    /\ ev.op = "set_search_desired"
    /\ StopOutstanding(eng)
    /\ ev.node = eng.search_desired.node
    /\ ev.limit = eng.search_desired.limit
    /\ ev.searchmoves = <<"e9e9">>
    /\ eng.search_desired.searchmoves = <<>>
    /\ eng.unresolved_stop_time # Null
    /\ out = <<>>

\* ---------------------------------------------------------------------- C16
\* C16: send_desired is never entered while search_running.node is non-empty,
\* so no step ever raises "send_desired() called but search was running".
C16_Theorem == \A i \in 1 .. Len(out) : out[i].kind # "throw"

\* From inside receive_bestmove the hub asked for a new search, and
\* send_desired wrote its go in the same step without complaint.
C16_Witness ==
    /\ BestmoveLine(ev)
    /\ ev.reenter
    /\ Len(CallsOf(out, "receive_bestmove")) = 1
    /\ Len(WritesOf(out, "go")) = 1
    /\ \A i \in 1 .. Len(out) : out[i].kind # "throw"
    /\ Running(eng)

\* ---------------------------------------------------------------------- C18
\* C18: between events, if search_running.node is empty then search_desired
\* is NoSearch: nothing is desired while nothing runs.
C18_Theorem == eng.search_running.node = NullNode => eng.search_desired = NoSearch

\* The hub asked for a search of a terminal position: send_desired gave the
\* search up, and neither a running nor a desired search is left.
C18_Witness ==
    /\ ev.op = "set_search_desired"
    /\ ev.node = "mate"
    /\ eng.ever_received_uciok /\ eng.ever_received_readyok
    /\ eng.search_running.node = NullNode
    /\ eng.search_desired = NoSearch
    /\ eng.search_completed.node # NullNode

\* ---------------------------------------------------------------------- C19
\* unresolved_stop_time is set exactly in states Changing and Ending.
C19_Invariant == (eng.unresolved_stop_time # Null) <=> StopOutstanding(eng)

\* A step that writes a stop sets the time if it was not set and keeps the
\* value it had otherwise.
C19_FirstStop ==
    WritesOf(out', "stop") # <<>>
    => /\ eng'.unresolved_stop_time # Null
       /\ eng.unresolved_stop_time # Null
            => eng'.unresolved_stop_time = eng.unresolved_stop_time

\* C19 as stated: between events unresolved_stop_time is set iff a search
\* runs that is not the desired object; the first stop after a go sets it,
\* later stops keep it, and every bestmove line clears it.
C19_AsStated ==
    /\ []C19_Invariant
    /\ [][ /\ C19_FirstStop
           /\ BestmoveLine(ev') => eng'.unresolved_stop_time = Null ]_vars

\* C19 amended: the same, where the bestmove lines that clear the time are
\* those that arrive before shutdown.
C19_Amended ==
    /\ []C19_Invariant
    /\ [][ /\ C19_FirstStop
           /\ (BestmoveLine(ev') /\ ~eng.have_quit)
                => eng'.unresolved_stop_time = Null ]_vars

\* A second stop has been written for the same go; the time is still the one
\* the first stop set.
C19_Witness ==
    /\ ev.op = "set_search_desired"
    /\ Len(WritesOf(out, "stop")) = 1
    /\ StopOutstanding(eng)
    /\ eng.unresolved_stop_time # Null
    /\ eng.unresolved_stop_time < requests

\* ---------------------------------------------------------------------- C20
\* No setoption is queued while no search runs.
C20_Invariant == eng.setoption_queue # <<>> => eng.search_running.node # NullNode

\* A setoption or button press requested while no search runs is not queued:
\* with an engine attached it is written in the same step.
C20_Immediate ==
    (ev'.op \in {"setoption", "pressbutton"} /\ eng.search_running.node = NullNode)
    => /\ eng'.setoption_queue = <<>>
       /\ eng.exe =>
            /\ Len(WritesOf(out', "setoption")) = 1
            /\ WritesOf(out', "setoption")[1].msg.name = ev'.name
            /\ WritesOf(out', "setoption")[1].msg.value = ev'.value
            /\ WritesOf(out', "setoption")[1].msg.req = opt_req'

\* C20: between events a non-empty setoption queue implies that
\* search_running.node is non-empty, and a setoption requested while the
\* engine is idle is processed in the same step, behind no queued one.
C20_Theorem == []C20_Invariant /\ [][C20_Immediate]_vars

\* A search has come and gone; the setoption the hub then made was written
\* at once and the queue is empty.
C20_Witness ==
    /\ ev.op = "setoption"
    /\ eng.search_running.node = NullNode
    /\ eng.search_completed.node # NullNode
    /\ eng.setoption_queue = <<>>
    /\ Len(WritesOf(out, "setoption")) = 1
    /\ opt_written = opt_req

\* ---------------------------------------------------------------------- C11
\* C11: with a well-behaved engine and first-in first-out pipes, whenever the
\* handling of an info or bestmove line calls hub.info_handler.receive or
\* hub.receive_bestmove, the node it passes is the node of the go that made
\* the engine emit the line.
C11_Theorem ==
    (ev.op = "stdout" /\ ev.line.head \in {"info", "bestmove"})
    => \A i \in 1 .. Len(out) :
          (out[i].kind = "call" /\ out[i].what \in {"info_handler.receive", "receive_bestmove"})
          => out[i].node = ev.source

\* While the search of one node was being replaced by the search of another,
\* an info line of the old search was handed to the hub with the old node.
C11_Witness ==
    /\ InfoLine(ev)
    /\ StopOutstanding(eng)
    /\ eng.search_desired.node \notin {NullNode, eng.search_running.node}
    /\ Len(CallsOf(out, "info_handler.receive")) = 1
    /\ CallsOf(out, "info_handler.receive")[1].node = ev.source
    /\ ev.source = eng.search_running.node

\* ---------------------------------------------------------------------- C17
\* C17: with an engine that reads its stdin and answers every go with one
\* bestmove, a scanner that delivers every line, and a hub that makes finitely
\* many calls, a driver in state Changing or Ending reaches a state in which
\* search_running is the same object as search_desired, unless shutdown is
\* called.
C17_Theorem ==
    StopOutstanding(eng)
        ~> (SameObject(eng.search_running, eng.search_desired) \/ eng.have_quit)

\* The stop has been answered: the bestmove of the replaced search was
\* dropped and the search that was desired is now the one running.
C17_Witness ==
    /\ BestmoveLine(ev)
    /\ ev.source # NullNode
    /\ CallsOf(out, "receive_bestmove") = <<>>
    /\ Len(WritesOf(out, "go")) = 1
    /\ Running(eng)
    /\ eng.search_running.node # ev.source
    /\ ~eng.have_quit
====
